---- MODULE Spec2Model ----
(***************************************************************************)
(* Model of the pdf-compress repository: the three compress_pdf variants   *)
(* (multi-strategy in dummy.py / fapi.py, single-strategy in demo.py,      *)
(* compound / adaptive in main.py) and the upload handlers of fapi.py.     *)
(*                                                                         *)
(* Files are modelled by their size and by the producer of their bytes:    *)
(* two files are byte-identical iff both fields agree.  The external tools *)
(* (Ghostscript, pikepdf, PyMuPDF, the HTTP upload) are nondeterministic:  *)
(* each run of a tool picks one of its possible behaviours.                *)
(***************************************************************************)
EXTENDS Integers, Sequences, FiniteSets, TLC

\* ---------------------------------------------------------------- bounds
MaxSize == 3
ShortRun == 1
MaxFiles == 2
MaxImages == 1

\* ------------------------------------------------------ program constants
GsTimeout == 120
TargetReductionPct == 25

LongRun == GsTimeout + 1

VARIABLES
  prog,              \* which compress_pdf runs: "multi" | "demo" | "main"
  pc,                \* position inside compress_pdf
  fs,                \* the file system: path -> content (NoFile when absent)
  input_valid,       \* the input file is a document the tools can open
  original_size,     \* compress_pdf local
  results,           \* compress_pdf local (multi): list of <<name, path, size>>
  images_compressed, \* compress_pdf local (main)
  ret,               \* the tuple compress_pdf returned
  raisedAt,          \* <<statement, stage>> whose exception left compress_pdf
  outcome,           \* what each external stage did in this run
  executed,          \* the stages called in this run
  run,               \* 1 = first call, 2 = second call on the same input
  first,             \* what the first call left behind
  endpoint,          \* "none" | "/compress" | "/compress-pdf"
  hpc,               \* position inside the HTTP handler
  files,             \* the uploaded files of the request
  idx,               \* the file the handler is working on
  temp_input,        \* handler local: TRUE once temp_input is assigned
  upload_dirs,       \* files whose upload directory exists
  downloads,         \* files whose output was left in DOWNLOAD_FOLDER
  responses,         \* per file: "none" | "ok" | "error"; request: status
  total_original,    \* batch local: the sum of the original sizes
  total_compressed,  \* batch local: the sum of the compressed sizes
  calls,             \* main.py: the stage calls made, <<stage, src, dst, q, dim>>
  variant,           \* recode pass of: "dummy" | "demo" | "main" | "main_retry"
  pages,             \* pdf.pages: per page "nores" | "noxobj" | an /XObject table
  xobjects,          \* /XObject tables: table -> name -> object id (0: no entry)
  objs,              \* the objects of the document: id -> object
  page_no,           \* the page the scan is at
  names,             \* list(xobjects.keys()) not yet visited on this page
  rpc,               \* position inside the recode pass
  images_processed,  \* images_processed / images_compressed of the pass
  substituted,       \* the substitutions made, in order
  examined,          \* one record per run of the loop body, in order
  image,             \* compress_image_data: the arguments of the call
  recoded,           \* compress_image_data: what the call returned
  directory,         \* get_non_overwriting_path: the names that exist
  counter,           \* get_non_overwriting_path local
  gpc,               \* position inside get_non_overwriting_path
  new_path,          \* get_non_overwriting_path: the path returned
  runs,              \* overlapping runs of compress_pdf: run -> its locals
  scratch,           \* scratch path -> the run that wrote it last (0: absent)
  temp_dirs,         \* the directories made by tempfile.mkdtemp that exist
  touched            \* accesses by a run to a scratch file of another run

vars == <<prog, pc, fs, input_valid, original_size, results, images_compressed,
          ret, raisedAt, outcome, executed, run, first,
          endpoint, hpc, files, idx, temp_input, upload_dirs, downloads,
          responses, total_original, total_compressed,
          calls, variant, pages, xobjects, objs, page_no,
          names, rpc, images_processed, substituted, examined,
          image, recoded, directory, counter, gpc, new_path,
          runs, scratch, temp_dirs, touched>>

cvars == <<prog, pc, fs, input_valid, original_size, results,
           images_compressed, ret, raisedAt, outcome, executed>>
hvars == <<endpoint, hpc, files, idx, temp_input, upload_dirs, downloads,
           responses, total_original, total_compressed>>
rvars == <<variant, pages, xobjects, objs, page_no, names, rpc,
           images_processed, substituted, examined>>
pvars == <<directory, counter, gpc, new_path>>
kvars == <<runs, scratch, temp_dirs, touched>>
xvars == <<image, recoded, pvars, kvars>>

\* ------------------------------------------------------------ file system
Paths == {"input_path", "output_path",
          "temp_dir", "temp_gs_ebook", "temp_gs_screen", "temp_pikepdf",
          "temp_path",
          "temp_path1", "temp_path2", "temp_aggressive", "temp_aggressive2"}

NoFile == [size |-> 0 - 1, by |-> "none"]
Dir == [size |-> 0, by |-> "dir"]
File(n, who) == [size |-> n, by |-> who]

EmptyFs == [p \in Paths |-> NoFile]

\* the entries of the scratch directory made by mkdtemp
TempDirEntries == {"temp_gs_ebook", "temp_gs_screen", "temp_pikepdf"}
\* the scratch files of main.py, all derived from output_path
MainScratch == {"temp_path1", "temp_path2", "temp_aggressive", "temp_aggressive2"}

exists(f, p) == f[p] # NoFile
getsize(f, p) == f[p].size
copy2_move(f, src, dst) == [f EXCEPT ![dst] = f[src], ![src] = NoFile]
copy2(f, src, dst) == [f EXCEPT ![dst] = f[src]]
remove(f, p) == [f EXCEPT ![p] = NoFile]
write(f, p, n, who) == IF n < 0 THEN f ELSE [f EXCEPT ![p] = File(n, who)]

rmtree_keep(f) == f
rmtree(f) ==
  [p \in Paths |-> IF p \in TempDirEntries \cup {"temp_dir"} THEN NoFile ELSE f[p]]

mkdtemp(f) == [f EXCEPT !["temp_dir"] = Dir]
mkstemp(f) == [f EXCEPT !["temp_path"] = File(0, "mkstemp")]

\* --------------------------------------------------- external behaviours
Stages == {"ghostscript_ebook", "ghostscript_screen", "pikepdf",
           "recode1", "fitz1", "save1", "recode2", "fitz2", "save2", "copy"}

NotRun == [kind |-> "notrun", present |-> FALSE, secs |-> 0, rc |-> 0,
           wrote |-> 0 - 1, images |-> 0]

Beh(k, p, s, r, w, i) ==
  [kind |-> k, present |-> p, secs |-> s, rc |-> r, wrote |-> w, images |-> i]

\* Ghostscript: not installed; still running when the timeout expires; exits
\* non-zero; exits zero.  Each may or may not have written its output file.
GsFailing ==
  {Beh("gs", FALSE, ShortRun, 0, 0 - 1, 0)}
  \cup {Beh("gs", TRUE, LongRun, 0, w, 0) : w \in {0 - 1, 1}}
  \cup {Beh("gs", TRUE, ShortRun, 1, w, 0) : w \in {0 - 1, 1}}
GsZero == {Beh("gs", TRUE, ShortRun, 0, w, 0) : w \in {0 - 1} \cup (1 .. MaxSize)}
GsBehaviours(valid) == IF valid THEN GsFailing \cup GsZero ELSE GsFailing

\* a library stage (pikepdf / PyMuPDF): fails to open its input, fails while
\* saving (nothing or a partial file written), or saves a file of some size
LibFailing(valid) ==
  {Beh("open_error", TRUE, 0, 0, 0 - 1, 0)}
  \cup (IF valid THEN {Beh("save_error", TRUE, 0, 0, w, 0) : w \in {0 - 1, 1}}
                 ELSE {})
LibOk(maxImages) ==
  {Beh("ok", TRUE, 0, 0, w, i) : w \in 1 .. MaxSize, i \in 0 .. maxImages}
LibBehaviours(valid, maxImages) ==
  LibFailing(valid) \cup (IF valid THEN LibOk(maxImages) ELSE {})

CopyBehaviours == {Beh("ok", TRUE, 0, 0, 0, 0), Beh("copy_error", TRUE, 0, 0, 0 - 1, 0)}

\* in a second call on the same input every stage behaves as in the first
Choices(stage, fresh) == IF run = 2 /\ stage # "copy" THEN {outcome[stage]} ELSE fresh


\* ------------------------------------------------------------- strategies
\* subprocess.run(cmd, capture_output=True, timeout=...)
subprocess_run(b, timeout) ==
  IF ~b.present THEN "FileNotFoundError"
  ELSE IF b.secs > timeout THEN "TimeoutExpired"
  ELSE IF b.rc = 0 THEN "returncode0" ELSE "returncode1"

Exceptions == {"FileNotFoundError", "TimeoutExpired"}

\* a stage answers "True", "False", or "Raise" when an exception leaves it
compress_with_ghostscript_uncaught(b) ==
  LET result == subprocess_run(b, GsTimeout)
  IN  IF result \in Exceptions THEN "Raise"
      ELSE IF result = "returncode0" THEN "True" ELSE "False"

compress_with_ghostscript(b) ==
  LET result == subprocess_run(b, GsTimeout)
  IN  IF result \in Exceptions THEN "False"
      ELSE IF result = "returncode0" THEN "True" ELSE "False"

compress_with_ghostscript_aggressive(b) ==
  LET result == subprocess_run(b, GsTimeout)
  IN  IF result \in Exceptions THEN "False"
      ELSE IF result = "returncode0" THEN "True" ELSE "False"

\* the whole body is inside try/except: True only after pdf.save and close
compress_with_pikepdf(b) == IF b.kind = "ok" THEN "True" ELSE "False"

\* ------------------------------------------------------- result selection
name_of(r) == r[1]
path_of(r) == r[2]
size_of(r) == r[3]

RECURSIVE insert_after_equal(_, _)
insert_after_equal(e, s) ==
  IF s = <<>> THEN <<e>>
  ELSE IF size_of(e) < size_of(Head(s)) THEN <<e>> \o s
  ELSE <<Head(s)>> \o insert_after_equal(e, Tail(s))

RECURSIVE insert_before_equal(_, _)
insert_before_equal(e, s) ==
  IF s = <<>> THEN <<e>>
  ELSE IF size_of(e) <= size_of(Head(s)) THEN <<e>> \o s
  ELSE <<Head(s)>> \o insert_before_equal(e, Tail(s))

RECURSIVE sort_unstable(_)
sort_unstable(s) ==
  IF s = <<>> THEN <<>>
  ELSE insert_before_equal(s[Len(s)], sort_unstable(SubSeq(s, 1, Len(s) - 1)))

sort_none(s) == s

\* results.sort(key=lambda x: x[2]): ascending by size, stable
RECURSIVE sort_by_size(_)
sort_by_size(s) ==
  IF s = <<>> THEN <<>>
  ELSE insert_after_equal(s[Len(s)], sort_by_size(SubSeq(s, 1, Len(s) - 1)))

always_smaller(best_size, orig) == TRUE
not_larger(best_size, orig) == best_size <= orig

\* best_size < original_size
is_smaller(best_size, orig) == best_size < orig

NotRaised == <<"none", "none">>
NoRet == [original |-> 0 - 1, compressed |-> 0 - 1]
Ret(o, c) == [original |-> o, compressed |-> c]


\* ------------------------------------------- compress_pdf, multi-strategy
\* (dummy.py and fapi.py: the two functions are the same code)

\* original_size = os.path.getsize(input_path); temp_dir = tempfile.mkdtemp()
Multi_Start ==
  /\ prog = "multi" /\ pc = "start"
  /\ original_size' = getsize(fs, "input_path")
  /\ fs' = mkdtemp(fs)
  /\ results' = <<>>
  /\ pc' = "gs_ebook"
  /\ UNCHANGED <<prog, input_valid, images_compressed, ret, raisedAt, outcome,
                 executed, run, first>>
  /\ UNCHANGED hvars
  /\ UNCHANGED <<calls, rvars, xvars>>

\* if <strategy>(input_path, path): size = getsize(path); results.append(...)
\* An exception leaves through the finally clause, which removes temp_dir.
Strategy(name, path, b, answer, next) ==
  LET f1 == write(fs, path, b.wrote, name)
  IN  /\ outcome' = [outcome EXCEPT ![name] = b]
      /\ executed' = executed \cup {name}
      /\ IF answer = "Raise"
           THEN /\ fs' = rmtree(f1)
                /\ pc' = "raised"
                /\ raisedAt' = <<"call", name>>
                /\ UNCHANGED results
         ELSE IF answer = "True" /\ ~exists(f1, path)
           THEN /\ fs' = rmtree(f1)
                /\ pc' = "raised"
                /\ raisedAt' = <<"getsize", name>>
                /\ UNCHANGED results
         ELSE /\ fs' = f1
              /\ pc' = next
              /\ results' = IF answer = "True"
                              THEN Append(results, <<name, path, getsize(f1, path)>>)
                              ELSE results
              /\ UNCHANGED raisedAt
      /\ UNCHANGED <<prog, input_valid, original_size, images_compressed, ret,
                     run, first>>
      /\ UNCHANGED hvars

Multi_GsEbook ==
  /\ prog = "multi" /\ pc = "gs_ebook"
  /\ \E b \in Choices("ghostscript_ebook", GsBehaviours(input_valid)) :
       Strategy("ghostscript_ebook", "temp_gs_ebook", b,
                compress_with_ghostscript(b), "gs_screen")
  /\ UNCHANGED <<calls, rvars, xvars>>

Multi_GsScreen ==
  /\ prog = "multi" /\ pc = "gs_screen"
  /\ \E b \in Choices("ghostscript_screen", GsBehaviours(input_valid)) :
       Strategy("ghostscript_screen", "temp_gs_screen", b,
                compress_with_ghostscript_aggressive(b), "pikepdf")
  /\ UNCHANGED <<calls, rvars, xvars>>

Multi_Pikepdf ==
  /\ prog = "multi" /\ pc = "pikepdf"
  /\ \E b \in Choices("pikepdf", LibBehaviours(input_valid, 0)) :
       Strategy("pikepdf", "temp_pikepdf", b, compress_with_pikepdf(b), "select")
  /\ UNCHANGED <<calls, rvars, xvars>>

\* the file compress_pdf copies to output_path, and the size it reports
Multi_Choice(res, orig) ==
  IF res = <<>> THEN <<"input_path", orig>>
  ELSE LET best == sort_by_size(res)[1]
       IN  IF is_smaller(size_of(best), orig)
             THEN <<path_of(best), size_of(best)>>
             ELSE <<"input_path", orig>>

\* lines 220-235: selection, shutil.copy2, return, finally: shutil.rmtree
Multi_Select ==
  /\ prog = "multi" /\ pc = "select"
  /\ \E c \in CopyBehaviours :
       LET ch == Multi_Choice(results, original_size)
       IN  /\ outcome' = [outcome EXCEPT !["copy"] = c]
           /\ executed' = executed \cup {"copy"}
           /\ IF c.kind = "ok"
                THEN /\ fs' = rmtree(copy2(fs, ch[1], "output_path"))
                     /\ ret' = Ret(original_size, ch[2])
                     /\ pc' = "returned"
                     /\ UNCHANGED raisedAt
                ELSE /\ fs' = rmtree(fs)
                     /\ pc' = "raised"
                     /\ raisedAt' = <<"copy2", "copy">>
                     /\ UNCHANGED ret
  /\ UNCHANGED <<prog, input_valid, original_size, results, images_compressed,
                 run, first>>
  /\ UNCHANGED hvars
  /\ UNCHANGED <<calls, rvars, xvars>>

\* the caller runs compress_pdf a second time on the same, unchanged input;
\* every external stage behaves as it did the first time
Multi_Again ==
  /\ prog = "multi" /\ endpoint = "none" /\ run = 1
  /\ pc \in {"returned", "raised"}
  /\ run' = 2
  /\ first' = [pc |-> pc, ret |-> ret, output |-> fs["output_path"]]
  /\ pc' = "start"
  /\ ret' = NoRet
  /\ raisedAt' = NotRaised
  /\ results' = <<>>
  /\ executed' = {}
  /\ original_size' = 0 - 1
  /\ UNCHANGED <<prog, fs, input_valid, images_compressed, outcome>>
  /\ UNCHANGED hvars
  /\ UNCHANGED <<calls, rvars, xvars>>


\* ------------------------------------------ compress_pdf, single strategy
\* (demo.py)

\* original_size = getsize(input_path); temp_fd, temp_path = mkstemp(); close
Demo_Start ==
  /\ prog = "demo" /\ pc = "start"
  /\ original_size' = getsize(fs, "input_path")
  /\ fs' = mkstemp(fs)
  /\ pc' = "recode"
  /\ UNCHANGED <<prog, input_valid, results, images_compressed, ret, raisedAt,
                 outcome, executed, run, first>>
  /\ UNCHANGED hvars
  /\ UNCHANGED <<calls, rvars, xvars>>

\* finally: if os.path.exists(temp_path): os.remove(temp_path)
demo_finally(f) == IF exists(f, "temp_path") THEN remove(f, "temp_path") ELSE f

\* pikepdf.open, the recode loop, pdf.save(temp_path): not guarded by except
Demo_Recode ==
  /\ prog = "demo" /\ pc = "recode"
  /\ \E b \in LibBehaviours(input_valid, 0) :
       LET f1 == write(fs, "temp_path", b.wrote, "pikepdf")
       IN  /\ outcome' = [outcome EXCEPT !["pikepdf"] = b]
           /\ executed' = executed \cup {"pikepdf"}
           /\ IF b.kind = "ok"
                THEN /\ fs' = f1
                     /\ pc' = "select"
                     /\ UNCHANGED raisedAt
                ELSE /\ fs' = demo_finally(f1)
                     /\ pc' = "raised"
                     /\ raisedAt' = <<"call", "pikepdf">>
  /\ UNCHANGED <<prog, input_valid, original_size, results, images_compressed,
                 ret, run, first>>
  /\ UNCHANGED hvars
  /\ UNCHANGED <<calls, rvars, xvars>>

Demo_Choice(f, orig) ==
  LET compressed_size == getsize(f, "temp_path")
  IN  IF compressed_size < orig
        THEN <<"temp_path", compressed_size>>
        ELSE <<"input_path", orig>>

\* lines 390-401: measure, compare, copy, return, finally
Demo_Select ==
  /\ prog = "demo" /\ pc = "select"
  /\ \E c \in CopyBehaviours :
       LET ch == Demo_Choice(fs, original_size)
       IN  /\ outcome' = [outcome EXCEPT !["copy"] = c]
           /\ executed' = executed \cup {"copy"}
           /\ IF c.kind = "ok"
                THEN /\ fs' = demo_finally(copy2(fs, ch[1], "output_path"))
                     /\ ret' = Ret(original_size, ch[2])
                     /\ pc' = "returned"
                     /\ UNCHANGED raisedAt
                ELSE /\ fs' = demo_finally(fs)
                     /\ pc' = "raised"
                     /\ raisedAt' = <<"copy2", "copy">>
                     /\ UNCHANGED ret
  /\ UNCHANGED <<prog, input_valid, original_size, results, images_compressed,
                 run, first>>
  /\ UNCHANGED hvars
  /\ UNCHANGED <<calls, rvars, xvars>>

\* ------------------------------------- compress_pdf, compound / adaptive
\* (main.py)

Main_Start ==
  /\ prog = "main" /\ pc = "start"
  /\ original_size' = getsize(fs, "input_path")
  /\ pc' = "recode1"
  /\ UNCHANGED <<prog, fs, input_valid, results, images_compressed, ret,
                 raisedAt, outcome, executed, run, first>>
  /\ UNCHANGED hvars
  /\ UNCHANGED <<calls, rvars, xvars>>

\* one stage of main.py: it writes `path`; an exception leaves compress_pdf
\* at once (the function has no try / finally)
MainStage(stage, path, b, next) ==
  /\ outcome' = [outcome EXCEPT ![stage] = b]
  /\ executed' = executed \cup {stage}
  /\ fs' = write(fs, path, b.wrote, stage)
  /\ IF b.kind = "ok"
       THEN pc' = next /\ UNCHANGED raisedAt
       ELSE pc' = "raised" /\ raisedAt' = <<"call", stage>>
  /\ UNCHANGED <<prog, input_valid, original_size, results, ret, run, first>>
  /\ UNCHANGED hvars

\* the calls of main.py's compress_pdf: <<stage, source, target, quality,
\* max_dimension>> (0 where the stage has no such parameter)
call_recode1 == <<"recode1", "input_path", "temp_path1", 65, 1200>>
call_fitz1_on_input == <<"fitz1", "input_path", "temp_path2", 0, 0>>
call_fitz1 == <<"fitz1", "temp_path1", "temp_path2", 0, 0>>
call_save1 == <<"save1", "temp_path2", "output_path", 0, 0>>
call_recode2 == <<"recode2", "input_path", "temp_aggressive", 45, 900>>
call_fitz2 == <<"fitz2", "temp_aggressive", "temp_aggressive2", 0, 0>>
call_save2 == <<"save2", "temp_aggressive2", "output_path", 0, 0>>

\* the sizes a final re-serialization can give: any small size, and one byte
\* less than the original (the reduction is then exactly 1 / original_size)
SaveBehaviours(orig) ==
  LibBehaviours(TRUE, 0)
  \cup (IF orig > 1 THEN {Beh("ok", TRUE, 0, 0, orig - 1, 0)} ELSE {})

\* compress_images_with_pikepdf(input_path, temp_path1, 65, 1200)
Main_Recode1 ==
  /\ prog = "main" /\ pc = "recode1"
  /\ \E b \in LibBehaviours(input_valid, MaxImages) :
       /\ MainStage("recode1", "temp_path1", b, "fitz1")
       /\ images_compressed' = b.images
  /\ calls' = Append(calls, call_recode1)
  /\ UNCHANGED <<rvars, xvars>>

\* compress_with_fitz(temp_path1, temp_path2)
Main_Fitz1 ==
  /\ prog = "main" /\ pc = "fitz1"
  /\ \E b \in LibBehaviours(TRUE, 0) :
       MainStage("fitz1", "temp_path2", b, "save1")
  /\ UNCHANGED images_compressed
  /\ calls' = Append(calls, call_fitz1)
  /\ UNCHANGED <<rvars, xvars>>

\* with pikepdf.open(temp_path2) as pdf: pdf.save(output_path, linearize=True)
Main_Save1 ==
  /\ prog = "main" /\ pc = "save1"
  /\ \E b \in SaveBehaviours(original_size) :
       MainStage("save1", "output_path", b, "check")
  /\ UNCHANGED images_compressed
  /\ calls' = Append(calls, call_save1)
  /\ UNCHANGED <<rvars, xvars>>

\* for temp in [a, b]: if os.path.exists(temp): os.remove(temp)
remove_temps(f, a, b) ==
  [p \in Paths |-> IF p \in {a, b} THEN NoFile ELSE f[p]]

reduction_below_target(orig, compressed) ==
  IF orig > 0 THEN 100 * (orig - compressed) < TargetReductionPct * orig
              ELSE TRUE

\* reduction = (original - compressed) / original if original > 0 else 0
\* reduction < target_reduction * 0.5, with target_reduction = 0.25
reduction_below_half_target(orig, compressed) ==
  IF orig > 0 THEN 200 * (orig - compressed) < TargetReductionPct * orig
              ELSE TRUE

\* lines 162-169 and 194
Main_Check ==
  /\ prog = "main" /\ pc = "check"
  /\ fs' = remove_temps(fs, "temp_path1", "temp_path2")
  /\ LET compressed_size == getsize(fs, "output_path")
     IN  IF reduction_below_half_target(original_size, compressed_size)
            /\ images_compressed > 0
           THEN pc' = "recode2" /\ UNCHANGED ret
           ELSE pc' = "returned" /\ ret' = Ret(original_size, compressed_size)
  /\ UNCHANGED <<prog, input_valid, original_size, results, images_compressed,
                 raisedAt, outcome, executed, run, first>>
  /\ UNCHANGED hvars
  /\ UNCHANGED <<calls, rvars, xvars>>

\* compress_images_with_pikepdf(input_path, temp_aggressive, 45, 900)
Main_Recode2 ==
  /\ prog = "main" /\ pc = "recode2"
  /\ \E b \in LibBehaviours(input_valid, 0) :
       MainStage("recode2", "temp_aggressive", b, "fitz2")
  /\ UNCHANGED images_compressed
  /\ calls' = Append(calls, call_recode2)
  /\ UNCHANGED <<rvars, xvars>>

\* compress_with_fitz(temp_aggressive, temp_aggressive2)
Main_Fitz2 ==
  /\ prog = "main" /\ pc = "fitz2"
  /\ \E b \in LibBehaviours(TRUE, 0) :
       MainStage("fitz2", "temp_aggressive2", b, "save2")
  /\ UNCHANGED images_compressed
  /\ calls' = Append(calls, call_fitz2)
  /\ UNCHANGED <<rvars, xvars>>

\* with pikepdf.open(temp_aggressive2) as pdf: pdf.save(output_path, ...)
Main_Save2 ==
  /\ prog = "main" /\ pc = "save2"
  /\ \E b \in SaveBehaviours(original_size) :
       MainStage("save2", "output_path", b, "finish")
  /\ UNCHANGED images_compressed
  /\ calls' = Append(calls, call_save2)
  /\ UNCHANGED <<rvars, xvars>>

\* lines 188-194
Main_Finish ==
  /\ prog = "main" /\ pc = "finish"
  /\ fs' = remove_temps(fs, "temp_aggressive", "temp_aggressive2")
  /\ ret' = Ret(original_size, getsize(fs, "output_path"))
  /\ pc' = "returned"
  /\ UNCHANGED <<prog, input_valid, original_size, results, images_compressed,
                 raisedAt, outcome, executed, run, first>>
  /\ UNCHANGED hvars
  /\ UNCHANGED <<calls, rvars, xvars>>


\* --------------------------------------------------- HTTP handlers (fapi.py)
\* /compress (compress_pdf_endpoint) takes one file, /compress-pdf
\* (compress_multiple_pdfs) a list; the per-file body is the same code.

NoResponse == [status |-> 0, entries |-> [i \in 1 .. MaxFiles |-> "none"]]

\* the endings of the uploaded file names
Extensions == {".pdf", ".PDF", ".txt"}

\* str.lower() on an ending
lower(ext) == IF ext = ".PDF" THEN ".pdf" ELSE ext

first_pdf(fl) == lower(fl[1].ext) = ".pdf"

\* file.filename.lower().endswith('.pdf'), for every uploaded file
all_pdf(fl) == \A i \in 1 .. Len(fl) : lower(fl[i].ext) = ".pdf"

\* the validation at the top of both handlers: 400, or go on to the files
H_Validate ==
  /\ endpoint # "none" /\ hpc = "validate"
  /\ IF files = <<>> \/ ~all_pdf(files)
       THEN /\ hpc' = "done"
            /\ responses' = [responses EXCEPT !.status = 400]
            /\ UNCHANGED idx
       ELSE /\ hpc' = "mkdtemp"
            /\ idx' = 1
            /\ UNCHANGED responses
  /\ UNCHANGED <<endpoint, files, temp_input, upload_dirs, downloads,
                 total_original, total_compressed>>
  /\ UNCHANGED <<run, first>>
  /\ UNCHANGED cvars
  /\ UNCHANGED <<calls, rvars, xvars>>

\* temp_dir = tempfile.mkdtemp(); temp_input = os.path.join(temp_dir, name)
H_Mkdtemp ==
  /\ endpoint # "none" /\ hpc = "mkdtemp"
  /\ upload_dirs' = upload_dirs \cup {idx}
  /\ temp_input' = TRUE
  /\ hpc' = "save"
  /\ UNCHANGED <<endpoint, files, idx, downloads, responses,
                 total_original, total_compressed>>
  /\ UNCHANGED <<run, first>>
  /\ UNCHANGED cvars
  /\ UNCHANGED <<calls, rvars, xvars>>

\* the upload: file.read() fails; open(temp_input, 'wb') fails (the file is
\* not created); f.write fails (a partial file exists); all bytes written
UploadBehaviours ==
  {[kind |-> k, size |-> 0 - 1, valid |-> FALSE] : k \in {"read_error", "open_error"}}
  \cup {[kind |-> "write_error", size |-> 1, valid |-> FALSE]}
  \cup {[kind |-> "ok", size |-> n, valid |-> v] : n \in 1 .. MaxSize, v \in BOOLEAN}

\* finally: if temp_input and os.path.exists(temp_input):
\*              shutil.rmtree(os.path.dirname(temp_input), ignore_errors=True)
handler_finally(dirs, ti, f, i) ==
  IF ti /\ exists(f, "input_path") THEN dirs \ {i} ELSE dirs

loop_stops_on_error(i, n, entry) ==
  IF i = n \/ entry = "error" THEN "done" ELSE "next"

\* for file in files: try ... except Exception: the loop goes on to the next
\* file whatever the entry, and ends after the last one
loop_after(i, n, entry) == IF i = n THEN "done" ELSE "next"

\* what follows the per-file body: the next file, or the response
H_Next(entry) ==
  /\ responses' =
       [status |-> IF endpoint = "/compress" /\ entry = "error" THEN 500
                   ELSE IF loop_after(idx, Len(files), entry) = "done" THEN 200
                   ELSE responses.status,
        entries |-> [responses.entries EXCEPT ![idx] = entry]]
  /\ IF loop_after(idx, Len(files), entry) = "done"
       THEN hpc' = "done" /\ UNCHANGED idx
       ELSE /\ hpc' = IF endpoint = "process_all_pdfs" THEN "next_file"
                                                         ELSE "mkdtemp"
            /\ idx' = idx + 1
  /\ temp_input' = FALSE

\* file_content = await file.read(); with open(temp_input, 'wb') as f: ...
H_SaveUpload ==
  /\ endpoint # "none" /\ hpc = "save"
  /\ \E u \in UploadBehaviours :
       LET f1 == write(EmptyFs, "input_path", u.size, "orig")
       IN  IF u.kind = "ok"
             THEN /\ fs' = f1
                  /\ input_valid' = u.valid
                  /\ hpc' = "compress"
                  /\ pc' = "start"
                  /\ UNCHANGED <<idx, temp_input, upload_dirs, responses>>
             ELSE /\ upload_dirs' = handler_finally(upload_dirs, temp_input, f1, idx)
                  /\ fs' = EmptyFs
                  /\ H_Next("error")
                  /\ UNCHANGED <<input_valid, pc>>
  /\ UNCHANGED <<endpoint, files, downloads, total_original, total_compressed>>
  /\ UNCHANGED <<prog, original_size, results, images_compressed, ret,
                 raisedAt, outcome, executed, run, first>>
  /\ UNCHANGED <<calls, rvars, xvars>>

\* compress_pdf(str(temp_input), str(output_file)) came back: the entry of
\* the response, the except clause, and the finally clause
H_AfterCompress ==
  /\ endpoint # "none" /\ hpc = "compress"
  /\ pc \in {"returned", "raised"}
  /\ H_Next(IF pc = "returned" THEN "ok" ELSE "error")
  /\ IF pc = "returned" /\ endpoint # "/compress"
       THEN /\ total_original' = total_original + ret.original
            /\ total_compressed' = total_compressed + ret.compressed
       ELSE UNCHANGED <<total_original, total_compressed>>
  /\ upload_dirs' = handler_finally(upload_dirs, temp_input, fs, idx)
  /\ downloads' = IF exists(fs, "output_path") THEN downloads \cup {idx}
                                                  ELSE downloads
  /\ fs' = EmptyFs
  /\ pc' = "idle"
  /\ ret' = NoRet
  /\ raisedAt' = NotRaised
  /\ results' = <<>>
  /\ executed' = {}
  /\ outcome' = [s \in Stages |-> NotRun]
  /\ original_size' = 0 - 1
  /\ UNCHANGED <<endpoint, files>>
  /\ UNCHANGED <<prog, input_valid, images_compressed, run, first>>
  /\ UNCHANGED <<calls, rvars, xvars>>

\* ------------------------------------------ process_all_pdfs (dummy.py)
\* pdf_files = list(input_folder.glob("*.pdf")); if not pdf_files: return
B_Glob ==
  /\ endpoint = "process_all_pdfs" /\ hpc = "glob"
  /\ IF files = <<>>
       THEN hpc' = "done" /\ UNCHANGED idx
       ELSE hpc' = "next_file" /\ idx' = 1
  /\ UNCHANGED <<endpoint, files, temp_input, upload_dirs, downloads,
                 responses, total_original, total_compressed>>
  /\ UNCHANGED <<run, first>>
  /\ UNCHANGED cvars
  /\ UNCHANGED <<calls, rvars, xvars>>

\* for pdf_file in pdf_files: output_file = get_non_overwriting_path(...);
\* try: compress_pdf(str(pdf_file), str(output_file))
B_NextFile ==
  /\ endpoint = "process_all_pdfs" /\ hpc = "next_file"
  /\ \E n \in 1 .. MaxSize : fs' = write(EmptyFs, "input_path", n, "orig")
  /\ input_valid' \in BOOLEAN
  /\ hpc' = "compress"
  /\ pc' = "start"
  /\ UNCHANGED <<endpoint, files, idx, temp_input, upload_dirs, downloads,
                 responses, total_original, total_compressed>>
  /\ UNCHANGED <<prog, original_size, results, images_compressed, ret,
                 raisedAt, outcome, executed, run, first>>
  /\ UNCHANGED <<calls, rvars, xvars>>

\* the files glob finds in the inputs folder
FolderLists(n) == UNION {[1 .. k -> [ext : {".pdf"}]] : k \in 0 .. n}

\* ----------------------------------------------------------- specification
NoFirst == [pc |-> "none", ret |-> NoRet, output |-> NoFile]

\* the requests tried: every list of at most n names with a name that is
\* rejected, every single name, and the lists of lower-case .pdf names (the
\* handling of an accepted request does not look at the names again)
UploadLists(n) ==
  {l \in UNION {[1 .. k -> [ext : Extensions]] : k \in 0 .. n} :
     \/ Len(l) <= 1
     \/ \E i \in 1 .. Len(l) : l[i].ext = ".txt"
     \/ \A i \in 1 .. Len(l) : l[i].ext = ".pdf"}

\* the input sizes tried: main.py also gets the size at which losing one byte
\* is a reduction of exactly target_reduction * 0.5
HalfTargetSize == 200 \div TargetReductionPct
InputSizes(p) == (1 .. MaxSize) \cup (IF p = "main" THEN {HalfTargetSize} ELSE {})

\* no recode pass is being looked at
\* no call of compress_image_data is being looked at
NoSearch ==
  /\ directory = {}
  /\ counter = 0
  /\ gpc = "idle"
  /\ new_path = <<>>

NoRuns ==
  /\ runs = <<>>
  /\ scratch = <<>>
  /\ temp_dirs = {}
  /\ touched = {}

NoCall ==
  /\ image = <<>>
  /\ recoded = <<>>
  /\ NoSearch
  /\ NoRuns

NoPass ==
  /\ variant = "none"
  /\ pages = <<>>
  /\ xobjects = <<>>
  /\ objs = <<>>
  /\ page_no = 0
  /\ names = <<>>
  /\ rpc = "none"
  /\ images_processed = 0
  /\ substituted = <<>>
  /\ examined = <<>>

Init ==
  /\ original_size = 0 - 1
  /\ results = <<>>
  /\ images_compressed = 0
  /\ ret = NoRet
  /\ raisedAt = NotRaised
  /\ outcome = [s \in Stages |-> NotRun]
  /\ executed = {}
  /\ run = 1
  /\ first = NoFirst
  /\ idx = 0
  /\ temp_input = FALSE
  /\ upload_dirs = {}
  /\ downloads = {}
  /\ responses = NoResponse
  /\ total_original = 0
  /\ total_compressed = 0
  /\ calls = <<>>
  /\ NoPass
  /\ NoCall
  /\ \/ /\ endpoint = "none"
        /\ hpc = "none"
        /\ files = <<>>
        /\ prog \in {"multi", "demo", "main"}
        /\ pc = "start"
        /\ input_valid \in BOOLEAN
        /\ \E n \in InputSizes(prog) : fs = write(EmptyFs, "input_path", n, "orig")
     \/ /\ endpoint = "/compress"
        /\ hpc = "validate"
        /\ files \in [1 .. 1 -> [ext : Extensions]]
        /\ prog = "multi"
        /\ pc = "idle"
        /\ input_valid = TRUE
        /\ fs = EmptyFs
     \/ /\ endpoint = "/compress-pdf"
        /\ hpc = "validate"
        /\ files \in UploadLists(MaxFiles)
        /\ prog = "multi"
        /\ pc = "idle"
        /\ input_valid = TRUE
        /\ fs = EmptyFs
     \/ /\ endpoint = "process_all_pdfs"
        /\ hpc = "glob"
        /\ files \in FolderLists(MaxFiles)
        /\ prog = "multi"
        /\ pc = "idle"
        /\ input_valid = TRUE
        /\ fs = EmptyFs

Next ==
  \/ Multi_Start \/ Multi_GsEbook \/ Multi_GsScreen \/ Multi_Pikepdf
  \/ Multi_Select \/ Multi_Again
  \/ Demo_Start \/ Demo_Recode \/ Demo_Select
  \/ Main_Start \/ Main_Recode1 \/ Main_Fitz1 \/ Main_Save1 \/ Main_Check
  \/ Main_Recode2 \/ Main_Fitz2 \/ Main_Save2 \/ Main_Finish
  \/ H_Validate \/ H_Mkdtemp \/ H_SaveUpload \/ H_AfterCompress
  \/ B_Glob \/ B_NextFile

Spec == Init /\ [][Next]_vars


\* ------------------------------------------------------ the recode pass
MaxPages == 2

\* the pass of dummy.py / fapi.py, of demo.py, and the two passes of main.py
Variants == {"dummy", "demo", "main", "main_retry"}

quality_of(v) ==
  CASE v = "dummy" -> 45
    [] v = "demo" -> 45
    [] v = "main" -> call_recode1[4]
    [] v = "main_retry" -> call_recode2[4]

max_dimension_of(v) ==
  CASE v = "dummy" -> 700
    [] v = "demo" -> 700
    [] v = "main" -> call_recode1[5]
    [] v = "main_retry" -> call_recode2[5]

\* The bytes of a stream: their length and, when they are an image file PIL
\* can open, the mode and the pixel size of that image.
Bytes(n, d, m, w, h) == [len |-> n, decodable |-> d, mode |-> m, w |-> w, h |-> h]

NoBytes == Bytes(0, FALSE, "none", 0, 0)

\* An object of the document.  has_dims: /Width and /Height are present;
\* wellformed: int() accepts them; readable: read_raw_bytes() succeeds.
Obj(k, st, wf, hd, w, h, f, rd, b) ==
  [kind |-> k, type |-> "XObject", subtype |-> st, wellformed |-> wf,
   has_dims |-> hd, width |-> w, height |-> h, colorspace |-> "DeviceRGB",
   bpc |-> 8, filter |-> f, readable |-> rd, stored |-> b]

PlainDict == Obj("dict", "none", TRUE, FALSE, 0, 0, "none", FALSE, NoBytes)
FormStream ==
  Obj("stream", "Form", TRUE, FALSE, 0, 0, "FlateDecode", TRUE, Bytes(20, FALSE, "none", 0, 0))
Untyped ==
  Obj("stream", "none", TRUE, TRUE, 1600, 800, "DCTDecode", TRUE, Bytes(20, TRUE, "RGB", 1600, 800))
Narrow ==
  Obj("stream", "Image", TRUE, TRUE, 49, 200, "DCTDecode", TRUE, Bytes(20, TRUE, "RGB", 49, 200))
Small ==
  Obj("stream", "Image", TRUE, TRUE, 50, 50, "DCTDecode", TRUE, Bytes(20, TRUE, "RGB", 50, 50))
Big ==
  Obj("stream", "Image", TRUE, TRUE, 1600, 800, "DCTDecode", TRUE, Bytes(20, TRUE, "RGB", 1600, 800))
NoDims ==
  Obj("stream", "Image", TRUE, FALSE, 0, 0, "DCTDecode", TRUE, Bytes(20, TRUE, "RGB", 1600, 800))
Malformed ==
  Obj("stream", "Image", FALSE, TRUE, 0, 0, "DCTDecode", TRUE, Bytes(20, TRUE, "RGB", 1600, 800))
Unreadable ==
  Obj("stream", "Image", TRUE, TRUE, 1600, 800, "DCTDecode", FALSE, NoBytes)
Flate ==
  Obj("stream", "Image", TRUE, TRUE, 1600, 800, "FlateDecode", TRUE, Bytes(20, FALSE, "none", 0, 0))

Gray ==
  [Obj("stream", "Image", TRUE, TRUE, 1600, 800, "DCTDecode", TRUE,
       Bytes(20, TRUE, "L", 1600, 800)) EXCEPT !.colorspace = "DeviceGray"]

Catalogue == {PlainDict, FormStream, Untyped, Narrow, Small, Big, NoDims,
              Malformed, Unreadable, Flate, Gray}

\* what img.save(..., format='JPEG') does in one call: it raises, or it
\* writes that many bytes
\* the lengths tried for a pass of variant v: on both sides of the variant's
\* threshold for the 20 stored bytes of the catalogue, and one below the
\* threshold for a stream the pass has made itself
EncLens(v) == IF v = "demo" THEN {10, 14, 15} ELSE {14, 17, 18}
Encodings(v) ==
  {[ok |-> FALSE, len |-> 0]} \cup {[ok |-> TRUE, len |-> n] : n \in EncLens(v)}

\* the mode after the RGBA / LA / P / other conversions
converted(mode) ==
  IF mode \in {"RGBA", "LA"} THEN "RGB"
  ELSE IF mode = "P" THEN "RGB"
  ELSE IF mode \notin {"RGB", "L"} THEN "RGB"
  ELSE mode

larger(a, b) == IF a > b THEN a ELSE b

\* (x * 2^k) mod n
RECURSIVE pow2mod(_, _, _)
pow2mod(x, k, n) == IF k = 0 THEN x % n ELSE pow2mod((x * 2) % n, k - 1, n)

\* the least j >= i with m * 2^j >= n: m / n lies in [2^-j, 2^(1-j))
RECURSIVE binade(_, _, _)
binade(m, n, i) == IF m * 2^i >= n THEN i ELSE binade(m, n, i + 1)

\* the greatest e >= i with 2^e <= x
RECURSIVE exponent(_, _)
exponent(x, i) == IF 2^(i + 1) > x THEN i ELSE exponent(x, i + 1)

\* int(d * (m / n)) in IEEE 754 double arithmetic, for n > m >= 1 and
\* 1 <= d <= n.  The quotient m / n is rounded to 53 bits (to nearest, ties
\* to even): rem is the remainder of the division that gives its mantissa.
\* When the quotient was rounded down and d * m / n is an integer X, the
\* product d * (m / n) falls short of X by d * rem / (n * 2^(52 + j)), and it
\* is rounded to the double below X, hence truncated to X - 1, when that is
\* more than half the gap below X.
float_scaled(d, n, m) ==
  LET j == binade(m, n, 1)
      rem == pow2mod(m, 52 + j, n)
      odd == pow2mod(m, 52 + j, 2 * n) >= n
      up == 2 * rem > n \/ (2 * rem = n /\ odd)
      X == (d * m) \div n
      e == exponent(X, 0)
      halves == IF 2^e = X THEN 4 ELSE 2
  IN IF rem = 0 \/ up \/ (d * m) % n # 0 THEN X
     ELSE IF halves * d * rem > n * 2^(j + e) THEN X - 1
     ELSE X

\* ratio = min(max_dimension / width, max_dimension / height);
\* new_size = (int(width * ratio), int(height * ratio))
resized(width, height, max_dimension) ==
  IF width > max_dimension \/ height > max_dimension
    THEN <<float_scaled(width, larger(width, height), max_dimension),
           float_scaled(height, larger(width, height), max_dimension)>>
    ELSE <<width, height>>

NoneResult == [present |-> FALSE, data |-> NoBytes, size |-> <<0, 0>>]

\* returns (output.getvalue(), img.size), or (None, None) on any exception
compress_image_data(image_bytes, quality, max_dimension, enc) ==
  IF ~image_bytes.decodable \/ ~enc.ok
    THEN NoneResult
    ELSE LET new_size == resized(image_bytes.w, image_bytes.h, max_dimension)
         IN IF new_size[1] = 0 \/ new_size[2] = 0
              THEN NoneResult
              ELSE [present |-> TRUE,
                    data |-> Bytes(enc.len, TRUE, converted(image_bytes.mode),
                                   new_size[1], new_size[2]),
                    size |-> new_size]

\* isinstance(xobj, pikepdf.Stream)
is_stream(xobj) == xobj.kind = "stream"

is_image_any(xobj) == TRUE

\* xobj.get('/Subtype') == pikepdf.Name.Image
is_image(xobj) == xobj.subtype = "Image"

\* xobj.get('/Width', 0), xobj.get('/Height', 0)
declared_width(xobj) == IF xobj.has_dims THEN xobj.width ELSE 0
declared_height(xobj) == IF xobj.has_dims THEN xobj.height ELSE 0

too_small_both(width, height) == width < 50 /\ height < 50

\* dummy.py, fapi.py, demo.py: if width < 50 or height < 50: continue
too_small_50(width, height) == width < 50 \/ height < 50

too_small_never(width, height) == FALSE

\* main.py: if width < 100 and height < 100: continue
too_small_100(width, height) == width < 100 /\ height < 100

too_small(v, width, height) ==
  IF v \in {"main", "main_retry"} THEN too_small_100(width, height)
                                  ELSE too_small_50(width, height)

at_threshold_90(len, raw_size) == 10 * len <= 9 * raw_size

\* len(compressed_data) < raw_size * 0.9
below_threshold_90(len, raw_size) == 10 * len < 9 * raw_size

\* demo.py: len(compressed_data) < raw_size * 0.75
below_threshold_75(len, raw_size) == 4 * len < 3 * raw_size

below_threshold(v, len, raw_size) ==
  IF v = "demo" THEN below_threshold_75(len, raw_size)
                ELSE below_threshold_90(len, raw_size)

\* the truth value of compressed_data: neither None nor empty
truthy(r) == r.present /\ r.data.len > 0

\* xobj.read_bytes(): the decoded samples, which are not an image file
read_bytes(xobj) == Bytes(xobj.stored.len, FALSE, "none", 0, 0)

Skip(step) == [step |-> step, result |-> NoneResult]

\* the body of the loop over the names of an /XObject table, for one entry
entry(xobj, v, enc) ==
  IF ~is_stream(xobj) THEN Skip("not_stream")
  ELSE IF ~is_image(xobj) THEN Skip("not_image")
  ELSE IF ~xobj.wellformed THEN Skip("raised")
  ELSE IF too_small(v, declared_width(xobj), declared_height(xobj))
    THEN Skip("too_small")
  ELSE IF ~xobj.readable THEN Skip("raised_inner")
  ELSE LET raw_size == xobj.stored.len
           image_data == IF xobj.filter = "DCTDecode" THEN xobj.stored
                                                      ELSE read_bytes(xobj)
           r == compress_image_data(image_data, quality_of(v),
                                    max_dimension_of(v), enc)
       IN IF truthy(r) /\ below_threshold(v, r.data.len, raw_size)
            THEN [step |-> "substitute", result |-> r]
            ELSE [step |-> "kept", result |-> r]

caught_inner_only(step) == step = "raised_inner"

\* the two except clauses around the body: except Exception: continue
caught(step) == step \in {"raised", "raised_inner"}

new_stream_flate(compressed_data, new_size) ==
  Obj("stream", "Image", TRUE, TRUE, new_size[1], new_size[2], "FlateDecode",
      TRUE, compressed_data)

\* pikepdf.Stream(pdf, compressed_data) and the seven keys set on it
new_stream(compressed_data, new_size) ==
  [kind |-> "stream", type |-> "XObject", subtype |-> "Image",
   wellformed |-> TRUE, has_dims |-> TRUE,
   width |-> new_size[1], height |-> new_size[2],
   colorspace |-> "DeviceRGB", bpc |-> 8, filter |-> "DCTDecode",
   readable |-> TRUE, stored |-> compressed_data]

assign_everywhere(xobjs, t, name, id) ==
  [u \in DOMAIN xobjs |->
     [n \in DOMAIN xobjs[u] |->
        IF xobjs[u][n] = xobjs[t][name] THEN id ELSE xobjs[u][n]]]

\* xobjects[name] = new_stream
assign(xobjs, t, name, id) == [xobjs EXCEPT ![t][name] = id]

Tables == {"d1", "d2"}
Names == <<"a", "b">>
PageKinds == {"nores", "noxobj"} \cup Tables

\* list(xobjects.keys())
keys(xobjs, t) == SelectSeq(Names, LAMBDA n : xobjs[t][n] # 0)

ovars == <<cvars, run, first, hvars, calls, xvars>>

\* for page in pdf.pages: the two membership tests and the snapshot of the names
R_NextPage ==
  /\ rpc = "scan"
  /\ names = <<>>
  /\ page_no < Len(pages)
  /\ page_no' = page_no + 1
  /\ names' = IF pages[page_no + 1] \in Tables
                THEN keys(xobjects, pages[page_no + 1])
                ELSE <<>>
  /\ UNCHANGED <<variant, pages, xobjects, objs, rpc, images_processed,
                 substituted, examined>>
  /\ UNCHANGED ovars

\* for name in list(xobjects.keys()): one run of the body
R_Entry ==
  /\ rpc = "scan"
  /\ names # <<>>
  /\ \E enc \in Encodings(variant) :
     \E e \in {entry(objs[xobjects[pages[page_no]][Head(names)]], variant, enc)} :
       LET name == Head(names)
           t == pages[page_no]
           id == xobjects[t][name]
           new == Len(objs) + 1
           visit(after) == [page |-> page_no, table |-> t, name |-> name,
                            obj |-> id, step |-> e.step,
                            result |-> e.result, after |-> after]
       IN IF e.step \in {"raised", "raised_inner"} /\ ~caught(e.step)
            THEN /\ rpc' = "raised"
                 /\ names' = <<>>
                 /\ examined' = Append(examined, visit(id))
                 /\ UNCHANGED <<xobjects, objs, images_processed, substituted>>
          ELSE IF e.step = "substitute"
            THEN /\ objs' = Append(objs, new_stream(e.result.data, e.result.size))
                 /\ xobjects' = assign(xobjects, t, name, new)
                 /\ images_processed' = images_processed + 1
                 /\ substituted' = Append(substituted,
                                          [table |-> t, name |-> name,
                                           old |-> id, new |-> new])
                 /\ examined' = Append(examined, visit(new))
                 /\ names' = Tail(names)
                 /\ rpc' = rpc
            ELSE /\ examined' = Append(examined, visit(id))
                 /\ names' = Tail(names)
                 /\ UNCHANGED <<xobjects, objs, images_processed, substituted, rpc>>
  /\ UNCHANGED <<variant, pages, page_no>>
  /\ UNCHANGED ovars

\* pdf.save(...): it writes the document or raises
R_Save ==
  /\ rpc = "scan"
  /\ names = <<>>
  /\ page_no = Len(pages)
  /\ \E ok \in BOOLEAN : rpc' = IF ok THEN "saved" ELSE "save_failed"
  /\ UNCHANGED <<variant, pages, xobjects, objs, page_no, names,
                 images_processed, substituted, examined>>
  /\ UNCHANGED ovars

\* the document after pikepdf.open: one to MaxPages pages; table d1 has the
\* entries a and b, table d2 has the entry a, which is the object of d1's a
InitRecode ==
  /\ prog = "none"
  /\ pc = "idle"
  /\ fs = EmptyFs
  /\ input_valid = TRUE
  /\ original_size = 0 - 1
  /\ results = <<>>
  /\ images_compressed = 0
  /\ ret = NoRet
  /\ raisedAt = NotRaised
  /\ outcome = [s \in Stages |-> NotRun]
  /\ executed = {}
  /\ run = 1
  /\ first = NoFirst
  /\ endpoint = "none"
  /\ hpc = "none"
  /\ files = <<>>
  /\ idx = 0
  /\ temp_input = FALSE
  /\ upload_dirs = {}
  /\ downloads = {}
  /\ responses = NoResponse
  /\ total_original = 0
  /\ total_compressed = 0
  /\ calls = <<>>
  /\ variant \in Variants
  /\ pages \in UNION {[1 .. k -> PageKinds] : k \in 1 .. MaxPages}
  /\ xobjects = [t \in Tables |->
                   IF t = "d1" THEN [a |-> 1, b |-> 2] ELSE [a |-> 1, b |-> 0]]
  /\ \E x \in Catalogue, y \in {Big, PlainDict} : objs = <<x, y>>
  /\ page_no = 0
  /\ names = <<>>
  /\ rpc = "scan"
  /\ images_processed = 0
  /\ substituted = <<>>
  /\ examined = <<>>
  /\ NoCall

NextRecode == R_NextPage \/ R_Entry \/ R_Save

SpecRecode == InitRecode /\ [][NextRecode]_vars


\* ------------------------------------------- one call of the recoder
\* the state of every variable of compress_pdf, of the handlers and of the
\* recode pass when none of them runs
NoProgram ==
  /\ prog = "none"
  /\ pc = "idle"
  /\ fs = EmptyFs
  /\ input_valid = TRUE
  /\ original_size = 0 - 1
  /\ results = <<>>
  /\ images_compressed = 0
  /\ ret = NoRet
  /\ raisedAt = NotRaised
  /\ outcome = [s \in Stages |-> NotRun]
  /\ executed = {}
  /\ run = 1
  /\ first = NoFirst
  /\ endpoint = "none"
  /\ hpc = "none"
  /\ files = <<>>
  /\ idx = 0
  /\ temp_input = FALSE
  /\ upload_dirs = {}
  /\ downloads = {}
  /\ responses = NoResponse
  /\ total_original = 0
  /\ total_compressed = 0
  /\ calls = <<>>

\* the pixel sizes and the modes of the images handed to the recoder
ImageSizes == {<<50, 50>>, <<700, 700>>, <<701, 350>>, <<1600, 800>>,
               <<589, 1178>>, <<1178, 589>>, <<1600, 1>>}
ImageModes == {"RGB", "L", "P", "RGBA", "LA", "CMYK"}

\* the arguments of one call, with what img.save will do in it
ImageCalls ==
  UNION {{[bytes |-> Bytes(20, d, IF d THEN m ELSE "none", s[1], s[2]),
           quality |-> quality_of(v), max_dimension |-> max_dimension_of(v),
           enc |-> enc] :
             d \in BOOLEAN, m \in ImageModes, s \in ImageSizes,
             enc \in Encodings(v)} :
         v \in {"dummy", "main", "main_retry"}}

InitImage ==
  /\ NoProgram
  /\ NoPass
  /\ \E c \in ImageCalls : image = <<c>>
  /\ recoded = <<>>
  /\ NoSearch
  /\ NoRuns

\* compressed_data, new_size = compress_image_data(image_data, ...)
I_Recode ==
  /\ Len(image) = 1
  /\ recoded = <<>>
  /\ recoded' = <<compress_image_data(image[1].bytes, image[1].quality,
                                     image[1].max_dimension, image[1].enc)>>
  /\ UNCHANGED <<image, cvars, run, first, hvars, calls, rvars, pvars, kvars>>

NextImage == I_Recode

SpecImage == InitImage /\ [][NextImage]_vars

\* ------------------------------------------- get_non_overwriting_path
\* the largest counter of a name that exists when the function is called
MaxNames == 5

\* path, seen as path.stem and path.suffix in path.parent
Path == <<"stem", ".pdf">>

\* parent / f"{stem}_{counter}{suffix}"
numbered(p, k) == <<p[1], k, p[2]>>

\* the names the directory may hold: path, its numbered names and another file
DirNames == {Path, <<"other", ".pdf">>} \cup {numbered(Path, k) : k \in 1 .. MaxNames}

\* p.path_exists()
path_exists(p) == p \in directory

next_counter_skip(k) == k + 2
\* counter += 1
next_counter(k) == k + 1

InitPath ==
  /\ NoProgram
  /\ NoPass
  /\ image = <<>>
  /\ recoded = <<>>
  /\ NoRuns
  /\ directory \in SUBSET DirNames
  /\ counter = 0
  /\ gpc = "call"
  /\ new_path = <<>>

\* if not path.path_exists(): return path, else counter = 1
G_Check ==
  /\ gpc = "call"
  /\ IF ~path_exists(Path)
       THEN /\ new_path' = <<Path>>
            /\ gpc' = "returned"
            /\ UNCHANGED counter
       ELSE /\ counter' = 1
            /\ gpc' = "loop"
            /\ UNCHANGED new_path
  /\ UNCHANGED <<directory, image, recoded, kvars>>
  /\ UNCHANGED <<cvars, run, first, hvars, calls, rvars>>

\* one run of the body of while True
G_Loop ==
  /\ gpc = "loop"
  /\ IF ~path_exists(numbered(Path, counter))
       THEN /\ new_path' = <<numbered(Path, counter)>>
            /\ gpc' = "returned"
            /\ UNCHANGED counter
       ELSE /\ counter' = next_counter(counter)
            /\ UNCHANGED <<gpc, new_path>>
  /\ UNCHANGED <<directory, image, recoded, kvars>>
  /\ UNCHANGED <<cvars, run, first, hvars, calls, rvars>>

NextPath == G_Check \/ G_Loop

\* the call is one sequential computation: it takes its next step
SpecPath == InitPath /\ [][NextPath]_vars /\ WF_vars(NextPath)

\* ----------------------------------------- overlapping runs of compress_pdf
Runs == {1, 2}
Documents == {"a.pdf", "b.pdf"}

\* how a variant names its scratch files: inside a directory made by
\* tempfile.mkdtemp (dummy.py, fapi.py) or from output_path (main.py)
ScratchVariants == {"mkdtemp", "main"}

\* the names tempfile.mkdtemp may draw
TempNames == {"tmp1", "tmp2", "tmp3"}

\* temp_gs_ebook, temp_gs_screen, temp_pikepdf
StrategyFiles == <<"gs_ebook.pdf", "gs_screen.pdf", "pikepdf.pdf">>

\* temp_path1, temp_path2 and temp_aggressive, temp_aggressive2
PassSuffixes == << <<".temp1.pdf", ".temp2.pdf">>,
                   <<".aggressive.pdf", ".aggressive2.pdf">> >>

\* output_folder / f"compressed_{pdf_file.name}"
output_of(doc) == <<"outputs", "compressed_", doc>>

\* str(output_path) + suffix
derived(doc, suffix) == output_of(doc) \o <<suffix>>

\* os.path.join(temp_dir, name)
joined(dir, name) == <<dir, name>>

ScratchPaths ==
  {derived(d, PassSuffixes[p][i]) : d \in Documents, p \in 1 .. 2, i \in 1 .. 2}
    \cup {joined(t, StrategyFiles[i]) : t \in TempNames, i \in 1 .. 3}

\* the scratch paths of a run with the locals r
scratch_paths(r) ==
  IF r.variant = "main"
    THEN {derived(r.doc, PassSuffixes[p][i]) : p \in 1 .. 2, i \in 1 .. 2}
    ELSE IF r.temp_dir = "none" THEN {}
    ELSE {joined(r.temp_dir, StrategyFiles[i]) : i \in 1 .. 3}

\* run r is inside compress_pdf
Active(r) == runs[r].kpc \notin {"start", "returned", "raised"}

\* the access op of run r to path p, when the file there was written last by
\* another run that is still inside compress_pdf
foreign(r, op, p) ==
  IF scratch[p] \notin {0, r} /\ Active(scratch[p])
    THEN {[run |-> r, op |-> op, path |-> p, of |-> scratch[p]]}
    ELSE {}

InitOverlap ==
  /\ NoProgram
  /\ NoPass
  /\ image = <<>>
  /\ recoded = <<>>
  /\ NoSearch
  /\ runs \in [Runs -> [variant : ScratchVariants, doc : Documents,
                        kpc : {"start"}, pass : {1}, step : {1},
                        temp_dir : {"none"}]]
  /\ scratch = [p \in ScratchPaths |-> 0]
  /\ temp_dirs = {}
  /\ touched = {}

KFrame == UNCHANGED <<image, recoded, pvars, cvars, run, first, hvars, calls, rvars>>

\* compress_pdf is entered; temp_dir = tempfile.mkdtemp() makes a directory
\* that did not exist
K_Call(r) ==
  /\ runs[r].kpc = "start"
  /\ IF runs[r].variant = "main"
       THEN /\ runs' = [runs EXCEPT ![r].kpc = "images"]
            /\ UNCHANGED temp_dirs
       ELSE \E t \in TempNames \ temp_dirs :
              /\ runs' = [runs EXCEPT ![r].kpc = "strategy", ![r].temp_dir = t]
              /\ temp_dirs' = temp_dirs \cup {t}
  /\ UNCHANGED <<scratch, touched>>
  /\ KFrame

\* one of the three strategies of dummy.py: it writes its file or fails
K_Strategy(r) ==
  /\ runs[r].kpc = "strategy"
  /\ LET p == joined(runs[r].temp_dir, StrategyFiles[runs[r].step])
         after == IF runs[r].step = 3
                    THEN [runs EXCEPT ![r].kpc = "choose"]
                    ELSE [runs EXCEPT ![r].step = @ + 1]
     IN /\ runs' = after
        /\ \/ /\ scratch' = [scratch EXCEPT ![p] = r]
              /\ touched' = touched \cup foreign(r, "overwrite", p)
           \/ UNCHANGED <<scratch, touched>>
  /\ UNCHANGED temp_dirs
  /\ KFrame

\* shutil.copy2(best_path, output_path), or the copy of the input
K_Choose(r) ==
  /\ runs[r].kpc = "choose"
  /\ LET written == {p \in scratch_paths(runs[r]) : scratch[p] # 0}
     IN \/ /\ written = {}
           /\ UNCHANGED touched
        \/ \E p \in written : touched' = touched \cup foreign(r, "read", p)
        \/ /\ written # {}
           /\ UNCHANGED touched
  /\ runs' = [runs EXCEPT ![r].kpc = "rmtree"]
  /\ UNCHANGED <<scratch, temp_dirs>>
  /\ KFrame

\* finally: shutil.rmtree(temp_dir, ignore_errors=True)
K_Rmtree(r) ==
  /\ runs[r].kpc = "rmtree"
  /\ LET own == scratch_paths(runs[r])
     IN /\ scratch' = [p \in ScratchPaths |-> IF p \in own THEN 0 ELSE scratch[p]]
        /\ touched' = touched \cup UNION {foreign(r, "delete", p) : p \in own}
  /\ temp_dirs' = temp_dirs \ {runs[r].temp_dir}
  /\ runs' = [runs EXCEPT ![r].kpc = "returned"]
  /\ KFrame

\* the two scratch paths of the pass run r of main.py is in
first_path(r) == derived(runs[r].doc, PassSuffixes[runs[r].pass][1])
second_path(r) == derived(runs[r].doc, PassSuffixes[runs[r].pass][2])

\* compress_images_with_pikepdf(input_path, temp_path1 / temp_aggressive)
K_Images(r) ==
  /\ runs[r].kpc = "images"
  /\ scratch' = [scratch EXCEPT ![first_path(r)] = r]
  /\ touched' = touched \cup foreign(r, "overwrite", first_path(r))
  /\ runs' = [runs EXCEPT ![r].kpc = "fitz"]
  /\ UNCHANGED temp_dirs
  /\ KFrame

\* compress_with_fitz(temp_path1, temp_path2): fitz.open raises when the
\* file is not there
K_Fitz(r) ==
  /\ runs[r].kpc = "fitz"
  /\ IF scratch[first_path(r)] = 0
       THEN /\ runs' = [runs EXCEPT ![r].kpc = "raised"]
            /\ UNCHANGED <<scratch, touched>>
       ELSE /\ scratch' = [scratch EXCEPT ![second_path(r)] = r]
            /\ touched' = touched \cup foreign(r, "read", first_path(r))
                                  \cup foreign(r, "overwrite", second_path(r))
            /\ runs' = [runs EXCEPT ![r].kpc = "save"]
  /\ UNCHANGED temp_dirs
  /\ KFrame

\* with pikepdf.open(temp_path2) as pdf: pdf.save(output_path, ...)
K_Save(r) ==
  /\ runs[r].kpc = "save"
  /\ IF scratch[second_path(r)] = 0
       THEN /\ runs' = [runs EXCEPT ![r].kpc = "raised"]
            /\ UNCHANGED touched
       ELSE /\ touched' = touched \cup foreign(r, "read", second_path(r))
            /\ runs' = [runs EXCEPT ![r].kpc = "remove"]
  /\ UNCHANGED <<scratch, temp_dirs>>
  /\ KFrame

\* for temp in [...]: if os.path.exists(temp): os.remove(temp); then the
\* second pass when the reduction is below half the target, or the return
K_Remove(r) ==
  /\ runs[r].kpc = "remove"
  /\ LET both == {first_path(r), second_path(r)}
     IN /\ scratch' = [p \in ScratchPaths |-> IF p \in both THEN 0 ELSE scratch[p]]
        /\ touched' = touched \cup UNION {foreign(r, "delete", p) : p \in both}
  /\ \/ /\ runs[r].pass = 1
        /\ runs' = [runs EXCEPT ![r].kpc = "images", ![r].pass = 2]
     \/ runs' = [runs EXCEPT ![r].kpc = "returned"]
  /\ UNCHANGED temp_dirs
  /\ KFrame

NextOverlap ==
  \E r \in Runs :
    \/ K_Call(r)
    \/ K_Strategy(r)
    \/ K_Choose(r)
    \/ K_Rmtree(r)
    \/ K_Images(r)
    \/ K_Fitz(r)
    \/ K_Save(r)
    \/ K_Remove(r)

SpecOverlap == InitOverlap /\ [][NextOverlap]_vars

\* ------------------------------------------------------------- vocabulary
MultiStrategies == <<"ghostscript_ebook", "ghostscript_screen", "pikepdf">>

Finished == pc \in {"returned", "raised"}

\* the stage ran in this call and reported success to compress_pdf
Succeeded(s) ==
  /\ s \in executed
  /\ IF outcome[s].kind = "gs"
       THEN outcome[s].present /\ outcome[s].secs <= 120 /\ outcome[s].rc = 0
       ELSE outcome[s].kind = "ok"

\* the gs stage ran and the tool was absent, timed out or exited non-zero
GsFailed(s) ==
  /\ s \in executed
  /\ outcome[s].kind = "gs"
  /\ (~outcome[s].present \/ outcome[s].secs > 120 \/ outcome[s].rc # 0)

Candidates == {i \in 1 .. 3 : Succeeded(MultiStrategies[i])}
CandidateSize(i) == outcome[MultiStrategies[i]].wrote
CandidateFile(i) == File(CandidateSize(i), MultiStrategies[i])
SmallestCandidates ==
  {i \in Candidates : \A j \in Candidates : CandidateSize(i) <= CandidateSize(j)}
SomeBeatsOriginal ==
  \E i \in Candidates : CandidateSize(i) < fs["input_path"].size

ResultNames == {name_of(results[i]) : i \in 1 .. Len(results)}


\* ----------------------------------------------------------------- claims

\* C1: whenever the multi-strategy or the single-strategy compress_pdf
\* returns (original_size, compressed_size), compressed_size <= original_size,
\* original_size is the size of the input, and the file at output_path has
\* exactly compressed_size bytes.
NonGrowth_C1 ==
  (prog \in {"multi", "demo"} /\ pc = "returned") =>
     /\ ret.original = fs["input_path"].size
     /\ ret.compressed <= ret.original
     /\ exists(fs, "output_path")
     /\ fs["output_path"].size = ret.compressed

\* a multi-strategy run returned a strictly smaller file although another
\* successful candidate was larger than the original
Witness_C1 ==
  /\ prog = "multi" /\ pc = "returned"
  /\ ret.compressed < ret.original
  /\ \E i \in Candidates : CandidateSize(i) > ret.original

\* C2: main.py's compress_pdf returns compressed_size <= original_size for
\* every valid input document, with or without the adaptive retry.
NonGrowthMain_C2 ==
  (prog = "main" /\ pc = "returned" /\ input_valid) =>
     ret.compressed <= ret.original

\* C3: when the multi-strategy compress_pdf returns and the smallest
\* successful candidate is strictly smaller than the original, the file at
\* output_path is a successful candidate of that smallest size and the
\* returned compressed_size is that size.
SmallestWins_C3 ==
  (prog = "multi" /\ pc = "returned" /\ SomeBeatsOriginal) =>
     \E i \in SmallestCandidates :
        /\ fs["output_path"] = CandidateFile(i)
        /\ ret.compressed = CandidateSize(i)

\* the smallest candidate is not the first strategy that succeeded
Witness_C3 ==
  /\ prog = "multi" /\ pc = "returned" /\ SomeBeatsOriginal
  /\ Cardinality(Candidates) = 3
  /\ 1 \notin SmallestCandidates
  /\ 2 \notin SmallestCandidates

\* C4: when the multi-strategy or the single-strategy compress_pdf returns
\* and no candidate is strictly smaller than the original (equality
\* included, or no candidate at all), the file at output_path is
\* byte-identical to the input and compressed_size = original_size.
Fallback_C4 ==
  (prog \in {"multi", "demo"} /\ pc = "returned" /\ ~SomeBeatsOriginal) =>
     /\ fs["output_path"] = fs["input_path"]
     /\ ret.compressed = ret.original
     /\ ret.original = fs["input_path"].size

\* a candidate of exactly the original's size lost to the original
Witness_C4 ==
  /\ prog = "multi" /\ pc = "returned" /\ ~SomeBeatsOriginal
  /\ \E i \in Candidates : CandidateSize(i) = fs["input_path"].size

\* C5: the candidate chosen by the multi-strategy compress_pdf is the first,
\* in the order ghostscript_ebook, ghostscript_screen, pikepdf, of the
\* successful candidates of smallest size; and a second run in which every
\* strategy behaves as in the first emits the same bytes and the same sizes.
Determinism_C5 ==
  /\ (prog = "multi" /\ pc = "returned" /\ SomeBeatsOriginal) =>
        \E i \in SmallestCandidates :
           /\ \A j \in SmallestCandidates : i <= j
           /\ fs["output_path"] = CandidateFile(i)
  /\ (run = 2 /\ pc = "returned" /\ first.pc = "returned") =>
        /\ fs["output_path"] = first.output
        /\ ret = first.ret

\* the second of two runs returned, and two candidates tied for smallest
Witness_C5 ==
  /\ run = 2 /\ pc = "returned" /\ first.pc = "returned"
  /\ SomeBeatsOriginal
  /\ Cardinality(SmallestCandidates) >= 2

\* C6: in the multi-strategy compress_pdf no failure of a strategy (a
\* reported success without an output file included) makes compress_pdf
\* raise or keeps another strategy from running; with all three failed it
\* returns (original_size, original_size).
Isolation_C6 ==
  prog = "multi" =>
     /\ ~(pc = "raised" /\ raisedAt[1] \in {"call", "getsize"})
     /\ (Finished /\ raisedAt[1] # "copy2") =>
           \A i \in 1 .. 3 : MultiStrategies[i] \in executed
     /\ (pc = "returned" /\ Candidates = {}) =>
           ret = Ret(fs["input_path"].size, fs["input_path"].size)

\* C7: once the multi-strategy or the single-strategy compress_pdf has
\* returned or raised, its scratch directory (with its entries) or its
\* scratch file no longer exists.
ScratchCleanup_C7 ==
  (prog \in {"multi", "demo"} /\ Finished) =>
     \A p \in TempDirEntries \cup {"temp_dir", "temp_path"} : ~exists(fs, p)

\* compress_pdf raised after a strategy had written into the scratch directory
Witness_C7 ==
  /\ prog = "multi" /\ pc = "raised"
  /\ \E i \in 1 .. 3 :
        /\ MultiStrategies[i] \in executed
        /\ outcome[MultiStrategies[i]].wrote > 0

\* C8: once main.py's compress_pdf has returned or raised, none of its
\* scratch files .temp1.pdf, .temp2.pdf, .aggressive.pdf, .aggressive2.pdf
\* exists.
MainCleanup_C8 ==
  (prog = "main" /\ Finished) => \A p \in MainScratch : ~exists(fs, p)

\* C9: in both HTTP handlers the only upload directory that exists is the one
\* of the file being handled; none is left when the handler is done with a
\* file, whatever failed.
UploadCleanup_C9 ==
  endpoint # "none" =>
     \A i \in upload_dirs : i = idx /\ hpc \in {"save", "compress"}

\* C10: a Ghostscript stage whose tool is absent, is still running after 120
\* seconds, or exits non-zero answers False without raising: the strategy is
\* not among the results, no exception leaves compress_pdf at that stage,
\* and the next stage runs.
GsFailure_C10 ==
  prog = "multi" =>
     /\ \A s \in {"ghostscript_ebook", "ghostscript_screen"} :
           GsFailed(s) => /\ s \notin ResultNames
                          /\ raisedAt[2] # s
     /\ GsFailed("ghostscript_ebook") => "ghostscript_screen" \in executed \/ pc = "gs_screen"
     /\ GsFailed("ghostscript_screen") => "pikepdf" \in executed \/ pc = "pikepdf"

\* ebook timed out, screen was not installed, and compress_pdf returned
Witness_C10 ==
  /\ prog = "multi" /\ pc = "returned"
  /\ outcome["ghostscript_ebook"].present
  /\ outcome["ghostscript_ebook"].secs > 120
  /\ outcome["ghostscript_ebook"].wrote > 0
  /\ "ghostscript_screen" \in executed
  /\ ~outcome["ghostscript_screen"].present
  /\ ret.compressed < ret.original


\* C14: when no stage can open the input, the multi-strategy compress_pdf
\* raises and writes nothing at output_path.
FatalInput_C14 ==
  (prog = "multi" /\ endpoint = "none" /\ run = 1 /\ ~input_valid /\ Finished) =>
     /\ pc = "raised"
     /\ ~exists(fs, "output_path")

\* the stage calls of main.py made so far, by stage name
Called(stage) == \E i \in 1 .. Len(calls) : calls[i][1] = stage

\* the first pass of main.py gave less than half the target reduction (an
\* eighth of the original size) and substituted at least one image
RetryDue ==
  /\ 8 * (original_size - outcome["save1"].wrote) < original_size
  /\ images_compressed > 0

\* C15: in main.py the aggressive pass (quality 45, max dimension 900, on the
\* original input) runs iff the first pass's reduction is below half the
\* target and at least one image was substituted; the output and the
\* returned size are the aggressive pass's when it ran, the first pass's
\* when it did not.
AdaptiveRetry_C15 ==
  prog = "main" =>
     /\ (pc = "recode2" \/ Called("recode2")) => RetryDue
     /\ \A i \in 1 .. Len(calls) :
           calls[i][1] = "recode2" =>
              calls[i] = <<"recode2", "input_path", "temp_aggressive", 45, 900>>
     /\ pc = "returned" =>
           IF RetryDue
             THEN /\ Called("save2")
                  /\ fs["output_path"] = File(outcome["save2"].wrote, "save2")
                  /\ ret.compressed = outcome["save2"].wrote
             ELSE /\ ~Called("recode2")
                  /\ fs["output_path"] = File(outcome["save1"].wrote, "save1")
                  /\ ret.compressed = outcome["save1"].wrote

\* the retry ran and its result, larger than the first pass's, was returned
Witness_C15 ==
  /\ prog = "main" /\ pc = "returned"
  /\ Called("save2")
  /\ outcome["save2"].wrote > outcome["save1"].wrote

\* C16 as claimed: the whole-document rewrite runs first and the recode pass
\* then reads the rewrite's output.
RewriteFirst_C16 ==
  prog = "main" =>
     \A i \in 1 .. Len(calls) :
        calls[i][1] = "recode1" =>
           \E j \in 1 .. i - 1 : calls[j][1] = "fitz1" /\ calls[i][2] = calls[j][3]

\* C16 amended: in main.py the recode pass runs first, on the input; the
\* whole-document rewrite (compress_with_fitz) then reads the recode pass's
\* output; the final re-serialization reads the rewrite's output and writes
\* output_path.
StageOrder_C16 ==
  prog = "main" =>
     /\ Len(calls) >= 1 => calls[1][1] = "recode1" /\ calls[1][2] = "input_path"
     /\ Len(calls) >= 2 => /\ calls[2][1] = "fitz1"
                           /\ calls[2][2] = calls[1][3]
     /\ Len(calls) >= 3 => /\ calls[3][1] = "save1"
                           /\ calls[3][2] = calls[2][3]
                           /\ calls[3][3] = "output_path"
     /\ pc \in {"check", "returned"} => Len(calls) >= 3

\* the three stages of the first pass ran and the output was written
Witness_C16 ==
  /\ prog = "main" /\ pc = "check"
  /\ Len(calls) = 3
  /\ exists(fs, "output_path")


\* ------------------------------------------------ claims on the recode pass
Visits == 1 .. Len(examined)
Visited(i) == objs[examined[i].obj]
Replaced(i) == examined[i].after # examined[i].obj
Terminated == rpc \in {"saved", "save_failed"}

\* the declared /Width and /Height of the object of visit i, 0 when missing
Width(i) == IF Visited(i).has_dims THEN Visited(i).width ELSE 0
Height(i) == IF Visited(i).has_dims THEN Visited(i).height ELSE 0

\* C11: in the pass of dummy.py, fapi.py and demo.py an entry whose declared
\* width is below 50 or whose declared height is below 50 (missing counts as
\* 0) is never substituted.
MinDim50_C11 ==
  variant \in {"dummy", "demo"} =>
     \A i \in Visits : (Width(i) < 50 \/ Height(i) < 50) => ~Replaced(i)

\* a 49 x 200 image was visited and the pass ended
Witness_C11 ==
  /\ variant \in {"dummy", "demo"}
  /\ Terminated
  /\ \E i \in Visits : Visited(i) = Narrow

\* C12 as claimed: in the passes of main.py an entry whose declared width is
\* below 100 or whose declared height is below 100 is never substituted.
MinDim100_C12 ==
  variant \in {"main", "main_retry"} =>
     \A i \in Visits : (Width(i) < 100 \/ Height(i) < 100) => ~Replaced(i)

\* C12 amended: in the passes of main.py an entry whose declared width and
\* declared height are both below 100 is never substituted.
BothBelow100_C12 ==
  variant \in {"main", "main_retry"} =>
     \A i \in Visits : (Width(i) < 100 /\ Height(i) < 100) => ~Replaced(i)

\* a 50 x 50 image was visited by a pass of main.py and the pass ended
Witness_C12 ==
  /\ variant \in {"main", "main_retry"}
  /\ Terminated
  /\ \E i \in Visits : Visited(i) = Small

\* visit i is of an image stream with well-formed dimensions that passes the
\* size test of the variant and whose stored bytes can be read
Eligible(i) ==
  /\ Visited(i).kind = "stream"
  /\ Visited(i).subtype = "Image"
  /\ Visited(i).wellformed
  /\ Visited(i).readable
  /\ IF variant \in {"main", "main_retry"}
       THEN Width(i) >= 100 \/ Height(i) >= 100
       ELSE Width(i) >= 50 /\ Height(i) >= 50

\* C13: an eligible entry is replaced iff the recode result is present and
\* non-empty and its length is strictly below 0.9 times (demo.py: 0.75 times)
\* the length of the stored bytes.
Threshold_C13 ==
  \A i \in Visits :
     Eligible(i) =>
        LET len == examined[i].result.data.len
            rawSize == Visited(i).stored.len
        IN Replaced(i) <=>
              /\ examined[i].result.present
              /\ len > 0
              /\ IF variant = "demo" THEN 4 * len < 3 * rawSize
                                     ELSE 10 * len < 9 * rawSize

\* with stored length 20 and threshold 0.9, a result of 18 bytes was kept
\* out and a result of 17 bytes was substituted
Witness_C13 ==
  /\ variant = "dummy"
  /\ \E i, j \in Visits :
        /\ Eligible(i) /\ Visited(i).stored.len = 20
        /\ examined[i].result.data.len = 18 /\ ~Replaced(i)
        /\ Eligible(j) /\ Visited(j).stored.len = 20
        /\ examined[j].result.data.len = 17 /\ Replaced(j)

\* the entries the scan has to run the body for: every name of the table of
\* every page that has one
Entries ==
  {<<p, n>> \in (1 .. Len(pages)) \X {"a", "b"} :
      pages[p] \in Tables /\ xobjects[pages[p]][n] # 0}

\* C17: a failure while inspecting or recoding one entry leaves the entry
\* unchanged and never aborts the scan; when the pass ends, every entry of
\* every page has been examined, and the pass reaches pdf.save.
FailureIsolation_C17 ==
  /\ rpc \in {"scan", "saved", "save_failed"}
  /\ \A i \in Visits : ~examined[i].result.present => ~Replaced(i)
  /\ Terminated => Entries = {<<examined[i].page, examined[i].name>> : i \in Visits}
  /\ (rpc = "scan" /\ names = <<>> /\ page_no = Len(pages)) => ENABLED R_Save

\* the first entry of a page raised, a later entry of that page was
\* substituted, a later page was scanned, and the document was saved
Witness_C17 ==
  /\ rpc = "saved"
  /\ \E i, j, k \in Visits :
        /\ i < j /\ j < k
        /\ ~Visited(i).wellformed
        /\ examined[j].page = examined[i].page /\ Replaced(j)
        /\ examined[k].page > examined[i].page

\* the objects the tables referred to when the document was opened
OriginalIds(t) == IF t = "d1" THEN {1, 2} ELSE {1}

NoImages ==
  \A p \in 1 .. Len(pages) :
     pages[p] \in Tables =>
        \A id \in OriginalIds(pages[p]) :
           objs[id].kind # "stream" \/ objs[id].subtype # "Image"

\* C18: an entry that is not a stream or whose /Subtype is not Image is
\* never replaced; pages without /Resources or without /XObject are not
\* scanned; a document with no image resources gets zero substitutions.
ScannerFrame_C18 ==
  /\ \A i \in Visits :
        (Visited(i).kind # "stream" \/ Visited(i).subtype # "Image") => ~Replaced(i)
  /\ \A i \in Visits : pages[examined[i].page] \in Tables
  /\ NoImages => substituted = <<>> /\ images_processed = 0

\* a document with a page without resources and a table holding a stream
\* without /Subtype and a plain dictionary was scanned to the end
Witness_C18 ==
  /\ Terminated
  /\ NoImages
  /\ \E p \in 1 .. Len(pages) : pages[p] \in {"nores", "noxobj"}
  /\ \E i, j \in Visits : Visited(i) = Untyped /\ Visited(j) = PlainDict

\* C19: a substitution changes only the slot of the entry being visited;
\* every other slot of every table keeps its object, the objects themselves
\* are not modified, and the pages keep their tables.
ReferenceIntegrity_C19 ==
  [][/\ \A t \in Tables : \A n \in {"a", "b"} :
           xobjects'[t][n] # xobjects[t][n] =>
              t = pages[page_no] /\ n = Head(names)
     /\ \A id \in 1 .. Len(objs) : objs'[id] = objs[id]
     /\ pages' = pages]_vars

\* entry a of table d1 was substituted while entry a of table d2, on
\* another page, still refers to the object both referred to
Witness_C19 ==
  /\ xobjects["d1"]["a"] # 1
  /\ xobjects["d2"]["a"] = 1
  /\ \E p, q \in 1 .. Len(pages) : pages[p] = "d1" /\ pages[q] = "d2"

\* C20: after a substitution the slot holds a new stream whose payload is
\* the recoded bytes, with Type XObject, Subtype Image, Filter DCTDecode,
\* BitsPerComponent 8, ColorSpace DeviceRGB, and Width and Height those the
\* recoder returned: the downscaled ones for an image above max_dimension.
ReplacementMetadata_C20 ==
  \A i \in Visits :
     Replaced(i) =>
        LET n == objs[examined[i].after]
            o == Visited(i)
        IN /\ examined[i].after > examined[i].obj
           /\ n.kind = "stream"
           /\ n.stored = examined[i].result.data
           /\ n.type = "XObject" /\ n.subtype = "Image"
           /\ n.filter = "DCTDecode" /\ n.bpc = 8
           /\ n.colorspace = "DeviceRGB"
           /\ <<n.width, n.height>> = examined[i].result.size
           /\ (o.stored.w = 1600 /\ o.stored.h = 800) =>
                 <<n.width, n.height>> =
                    CASE variant \in {"dummy", "demo"} -> <<700, 350>>
                      [] variant = "main" -> <<1200, 600>>
                      [] variant = "main_retry" -> <<900, 450>>
           /\ (o.stored.w <= 700 /\ o.stored.h <= 700) =>
                 <<n.width, n.height>> = <<o.stored.w, o.stored.h>>

\* a 1600 x 800 image was substituted by the first pass of main.py and the
\* new stream declares 1200 x 600
Witness_C20 ==
  /\ variant = "main"
  /\ \E i \in Visits :
        /\ Replaced(i)
        /\ Visited(i).width = 1600
        /\ objs[examined[i].after].width = 1200


\* ------------------------------------------------- claims on the recoder
\* C21: when neither dimension exceeds max_dimension the returned size is
\* the decoded image's; otherwise it is (trunc(width * r), trunc(height * r))
\* with r = min(max_dimension / width, max_dimension / height); both returned
\* dimensions are between 1 and max_dimension.
Downscale_C21 ==
  (Len(recoded) = 1 /\ recoded[1].present) =>
     LET w == image[1].bytes.w
         h == image[1].bytes.h
         m == image[1].max_dimension
         size == recoded[1].size
     IN /\ IF w <= m /\ h <= m
             THEN size = <<w, h>>
             ELSE size = <<(w * m) \div larger(w, h), (h * m) \div larger(w, h)>>
        /\ size[1] >= 1 /\ size[1] <= m
        /\ size[2] >= 1 /\ size[2] <= m


\* the objects the pass itself created by the substitutions before visit i
Created(i) == {examined[j].after : j \in {k \in 1 .. i - 1 : Replaced(k)}}

\* C27: within one pass no image is recoded and substituted more than once,
\* and no stream the pass created is substituted again.
AtMostOnce_C27 ==
  \A i \in Visits :
     Replaced(i) =>
        /\ examined[i].obj \notin Created(i)
        /\ \A j \in 1 .. i - 1 : Replaced(j) => examined[j].obj # examined[i].obj

\* the number of colour components of the samples of a JPEG of that mode
components(mode) == IF mode = "L" THEN 1 ELSE IF mode = "CMYK" THEN 4 ELSE 3

\* C28: the colour space declared on a replacement stream (DeviceRGB, three
\* components) is the colour model of the bytes the recoder produced.
ColourModel_C28 ==
  \A i \in Visits :
     Replaced(i) =>
        /\ objs[examined[i].after].colorspace = "DeviceRGB"
        /\ components(objs[examined[i].after].stored.mode) = 3


\* ------------------------------------------- further claims on compress_pdf
\* C23: no step of compress_pdf, whatever the variant and the outcome,
\* writes or deletes the file at input_path, and every recode pass of
\* main.py reads input_path.
InputImmutable_C23 ==
  [][/\ (pc # "idle" /\ pc' # "idle") => fs'["input_path"] = fs["input_path"]
     /\ \A i \in 1 .. Len(calls) :
           calls[i][1] \in {"recode1", "recode2"} => calls[i][2] = "input_path"]_vars

\* the multi-strategy variant fell back to copying the input, and the input
\* is still there with the size read at the start
Witness_C23 ==
  /\ prog = "multi" /\ pc = "returned"
  /\ ret.compressed = ret.original
  /\ fs["output_path"] = fs["input_path"]
  /\ fs["input_path"] = File(original_size, "orig")


\* ------------------------------------------ claims on the batch and uploads
\* a request to one of the two upload endpoints with a file whose name does
\* not end in .pdf, in any letter case
HasNonPdf ==
  /\ endpoint \in {"/compress", "/compress-pdf"}
  /\ \E i \in 1 .. Len(files) : files[i].ext \notin {".pdf", ".PDF"}

\* a batch: the /compress-pdf endpoint or process_all_pdfs
Batch == endpoint \in {"/compress-pdf", "process_all_pdfs"}

\* C22: in a batch, when compress_pdf fails for one document the document
\* gets an error entry, adds nothing to total_original and total_compressed,
\* and the loop goes on to the next document; a document that succeeds adds
\* its two sizes; when the batch ends every document has an entry.
BatchIsolation_C22 ==
  [][Batch =>
       /\ (hpc = "compress" /\ hpc' # "compress" /\ pc = "raised") =>
             /\ responses'.entries[idx] = "error"
             /\ total_original' = total_original
             /\ total_compressed' = total_compressed
             /\ idx < Len(files) =>
                   idx' = idx + 1 /\ hpc' \in {"mkdtemp", "next_file"}
       /\ (hpc = "compress" /\ hpc' # "compress" /\ pc = "returned") =>
             /\ responses'.entries[idx] = "ok"
             /\ total_original' = total_original + ret.original
             /\ total_compressed' = total_compressed + ret.compressed
       /\ (hpc' = "done" /\ responses'.status = 200) =>
             \A i \in 1 .. Len(files) : responses'.entries[i] \in {"ok", "error"}]_vars

\* process_all_pdfs ended: the first of two documents failed, the second
\* was compressed and is the only one in the totals
Witness_C22 ==
  /\ endpoint = "process_all_pdfs" /\ hpc = "done"
  /\ Len(files) = 2
  /\ responses.entries[1] = "error"
  /\ responses.entries[2] = "ok"
  /\ total_original > 0
  /\ total_original <= MaxSize

\* C26: a request with a file name that does not end in .pdf is answered
\* 400 by the validation, before any scratch directory is made, any upload
\* is read or written, any document is compressed and anything is added to
\* the downloads folder; a request whose names all end in .pdf, in whatever
\* letter case, is not answered 400.
UploadValidation_C26 ==
  /\ (HasNonPdf /\ hpc # "validate") =>
        /\ hpc = "done"
        /\ responses.status = 400
        /\ upload_dirs = {}
        /\ downloads = {}
        /\ fs = EmptyFs
        /\ pc = "idle"
        /\ \A i \in 1 .. Len(files) : responses.entries[i] = "none"
  /\ (endpoint \in {"/compress", "/compress-pdf"} /\ ~HasNonPdf
        /\ files # <<>> /\ hpc = "done") => responses.status # 400

\* /compress-pdf rejected two files of which the first was a PDF
Witness_C26 ==
  /\ endpoint = "/compress-pdf" /\ hpc = "done"
  /\ Len(files) = 2
  /\ files[1].ext = ".PDF" /\ files[2].ext = ".txt"
  /\ responses.status = 400

\* ------------------------------------------------ claim on the output path
\* the name that get_non_overwriting_path has to return: path when it does
\* not exist, else the numbered name with the smallest counter >= 1 that does
\* not exist
Smallest(p) ==
  \/ ~path_exists(Path) /\ p = Path
  \/ /\ path_exists(Path)
     /\ \E k \in 1 .. MaxNames + 1 :
           /\ p = numbered(Path, k)
           /\ \A j \in 1 .. k - 1 : path_exists(numbered(Path, j))

\* C25: get_non_overwriting_path returns path when it does not exist and
\* otherwise the numbered name with the smallest counter >= 1 that does not
\* exist; the returned path does not exist; and the search ends.
NonOverwriting_C25 ==
  /\ [](gpc = "returned" => (~path_exists(new_path[1]) /\ Smallest(new_path[1])))
  /\ <>(gpc = "returned")

\* path, _1 and _2 exist, _3 does not and _4 does: _3 is returned
Witness_C25 ==
  /\ gpc = "returned"
  /\ new_path = <<numbered(Path, 3)>>
  /\ path_exists(numbered(Path, 4))
  /\ counter = 3


\* ------------------------------------------------ claim on scratch files
\* C24: two runs of compress_pdf that are in progress at the same time have
\* disjoint scratch paths, and no run reads, overwrites or deletes a scratch
\* file written by another run that is still in progress.
ScratchIsolation_C24 ==
  /\ \A r1, r2 \in Runs :
        (r1 # r2 /\ Active(r1) /\ Active(r2)) =>
           scratch_paths(runs[r1]) \cap scratch_paths(runs[r2]) = {}
  /\ touched = {}

====
